---- MODULE Spec2Model ----
(***************************************************************************)
(* A model of scripts/optimize_gif.py: one run of optimize_gif, from       *)
(* Image.open to the saved <stem>.optimized.gif.                           *)
(*                                                                         *)
(* A frame of the opened image is modelled by its info dictionary alone,   *)
(* and of that only the "duration" key: <<>> when the key is absent,       *)
(* <<d>> when it is present with value d.  A kept frame is modelled by its  *)
(* index in the source animation (SourceImage for the image object itself, *)
(* which the fallback of lines 58-64 converts).  Pixel data, the colors    *)
(* argument and the parsing of the command line in main() play no part in *)
(* which frames are kept, which size is planned or what is written where;  *)
(* the library calls that handle them appear as steps that succeed or     *)
(* raise.                                                                  *)
(***************************************************************************)
EXTENDS Integers, Sequences, FiniteSets, TLC

(* ------------------------------ bounds -------------------------------- *)

\* Longest animation whose frames take every combination of FrameInfos.
MaxFrames == 4
\* Longest animation whose frames all carry the same info.
MaxUniformFrames == 10
\* Largest source width and height.
MaxDim == 8
\* Largest max_width and max_height.
MaxBound == 9

(* ------------------------- program constants -------------------------- *)

\* frame.info.get("duration", 100), and the average of no frames.
DefaultDuration == 100
\* max(10, ...)
MinFrameDuration == 10
\* 1000 / fps
MillisPerSecond == 1000

\* The frame the fallback synthesises is the image object itself.
SourceImage == -1

\* info dictionaries of the frames: no "duration", or a duration in ms.
FrameInfos == {<<>>, <<20>>, <<100>>}
\* fps values: main() passes any int that --fps parses to.
FpsSet == {-3, 0, 1, 6, 12, 50, 1000}

(* ------------------------------ helpers ------------------------------- *)

Min2(a, b) == IF a <= b THEN a ELSE b
Max2(a, b) == IF a >= b THEN a ELSE b
Abs(a) == IF a >= 0 THEN a ELSE -a

\* int(a / b) for integers a, b with b # 0: Python's int() truncates a float
\* toward zero.  The quotients here are far from the precision of a double,
\* so the float quotient truncates to the same integer as the exact one.
TruncDiv(a, b) ==
  IF (a >= 0) = (b > 0) THEN Abs(a) \div Abs(b) ELSE -(Abs(a) \div Abs(b))

RECURSIVE SumSeq(_)
SumSeq(s) == IF s = <<>> THEN 0 ELSE Head(s) + SumSeq(Tail(s))

\* info.get("duration", default)
InfoGetDuration(info, default) == IF info = <<>> THEN default ELSE info[1]

(* --------------------------- size planning ---------------------------- *)

\* a/b <= c/d for positive denominators
RatLeq(p, q) == p[1] * q[2] <= q[1] * p[2]
RatMin(p, q) == IF RatLeq(p, q) THEN p ELSE q

\* Faulty variants of Scale: without the 1.0 clamp; without max_height.
ScaleUnclamped(sw, sh, mw, mh) == RatMin(<<mw, sw>>, <<mh, sh>>)
ScaleWidthOnly(sw, sh, mw, mh) == RatMin(<<mw, sw>>, <<1, 1>>)

\* scale = min(max_width / w, max_height / h, 1.0), as the exact rational
\* <<numerator, denominator>> the float approximates.
Scale(sw, sh, mw, mh) == RatMin(RatMin(<<mw, sw>>, <<mh, sh>>), <<1, 1>>)

RECURSIVE GCD(_, _)
GCD(a, b) == IF b = 0 THEN a ELSE GCD(b, a % b)

RECURSIVE IsPowerOfTwo(_)
IsPowerOfTwo(n) == n = 1 \/ (n > 1 /\ n % 2 = 0 /\ IsPowerOfTwo(n \div 2))

\* The float quotient num / den is the exact one when the reduced
\* denominator is a power of two (the operands are small integers).
ExactQuotient(scale) == IsPowerOfTwo(scale[2] \div GCD(scale[1], scale[2]))

\* int(x * scale).  The product is computed in floating point from the
\* rounded quotient.  Where the exact product is not an integer it is far
\* from one and truncates to the exact floor.  Where it is an integer k and
\* the quotient was rounded, the float product is k or falls just short of
\* it and truncates to k - 1 (22 * (15 / 22) is 14.999999999999998): both
\* outcomes are allowed.
IntTimesScale(x, scale) ==
  LET n == x * scale[1]
      d == scale[2]
      k == TruncDiv(n, d)
  IN  IF n % d = 0 /\ ~ExactQuotient(scale) THEN {k, k - 1} ELSE {k}

\* new_size = (max(1, int(w * scale)), max(1, int(h * scale)))
NewSizes(sw, sh, mw, mh) ==
  LET scale == Scale(sw, sh, mw, mh)
  IN  { <<Max2(1, a), Max2(1, b)>> :
          a \in IntTimesScale(sw, scale), b \in IntTimesScale(sh, scale) }

(* --------------------------- frame timing ----------------------------- *)

\* orig_durations = [frame.info.get("duration", 100) for frame in ...]
OrigDurations(frames_info) ==
  [k \in 1..Len(frames_info) |-> InfoGetDuration(frames_info[k], DefaultDuration)]

\* avg_duration = sum(orig_durations) / len(orig_durations) if orig_durations
\* else 100, as the exact rational <<numerator, denominator>>.
AvgDuration(orig) ==
  IF orig # <<>> THEN <<SumSeq(orig), Len(orig)>> ELSE <<DefaultDuration, 1>>

\* Faulty variant of TargetFrameDuration: without the floor of 10 ms.
TargetFrameDurationNoFloor(f) == TruncDiv(MillisPerSecond, f)

\* target_frame_duration = max(10, int(1000 / fps)), for fps # 0
TargetFrameDuration(f) == Max2(MinFrameDuration, TruncDiv(MillisPerSecond, f))

\* Faulty variant of FrameDuration: 100 ms, not the mean, as the default.
FrameDurationDefault100(info, avg) == InfoGetDuration(info, DefaultDuration)

\* dur = frame.info.get("duration", int(avg_duration)); convert("RGBA")
\* copies the info dictionary of the frame it converts.
FrameDuration(info, avg) == InfoGetDuration(info, TruncDiv(avg[1], avg[2]))

\* Faulty variants of ShouldKeep: without "or i == 0"; with > for >=.
ShouldKeepNoFirst(a, target, idx) == a >= target
ShouldKeepStrict(a, target, idx) == a > target \/ idx = 0

\* if acc >= target_frame_duration or i == 0:
ShouldKeep(a, target, idx) == a >= target \/ idx = 0

\* Faulty variant of AccAfter: acc is not reset when a frame is kept.
AccAfterNoReset(a, keep) == a

\* acc = 0 inside the branch that keeps the frame
AccAfter(a, keep) == IF keep THEN 0 ELSE a

\* Faulty variant of OutDuration: the kept frame keeps its own duration.
OutDurationOriginal(d, target) == d

\* durations.append(target_frame_duration)
OutDuration(d, target) == target

(* ------------------------------- state -------------------------------- *)

VARIABLES
  w, h,                   \* im.size
  max_width, max_height,  \* arguments
  fps,                    \* argument
  im,                     \* the info dictionaries of the frames of im
  pc,                     \* where the run is
  new_size,
  orig_durations,
  avg_duration,
  target_frame_duration,
  i,                      \* number of frames the loop of line 41 has taken
  dur,                    \* dur of the last iteration
  acc,
  frames,                 \* kept frames, by source index
  durations,
  paletted,
  out_file,               \* the file at out_path
  error                   \* the exception that ended the run, or "none"

vars == <<w, h, max_width, max_height, fps, im, pc, new_size, orig_durations,
          avg_duration, target_frame_duration, i, dur, acc, frames, durations,
          paletted, out_file, error>>

inputs == <<w, h, max_width, max_height, fps, im>>
timing == <<orig_durations, avg_duration, target_frame_duration>>
loopvars == <<i, dur, acc, frames, durations>>

RECURSIVE SeqsUpTo(_, _)
SeqsUpTo(S, n) ==
  IF n = 0 THEN {<<>>}
  ELSE LET shorter == SeqsUpTo(S, n - 1)
       IN  shorter \cup { Append(s, x) : s \in { t \in shorter : Len(t) = n - 1 }, x \in S }

UniformSeqs(S, n) == { [k \in 1..m |-> x] : m \in 0..n, x \in S }

\* Animations: every short one, and the long ones of identical frames.
Animations == SeqsUpTo(FrameInfos, MaxFrames) \cup UniformSeqs(FrameInfos, MaxUniformFrames)

\* <<w, h, max_width, max_height>>: one that is resized, one that is not.
SizeSamples == { <<4, 3, 2, 2>>, <<2, 2, 480, 480>> }

\* The state at the call of optimize_gif.  Either the sizes range over their
\* bounds for one fixed animation, or the animation and fps range for the
\* sample sizes.  A file of an earlier run may be at out_path.
Init ==
  /\ \/ /\ w \in 1..MaxDim /\ h \in 1..MaxDim
        /\ max_width \in 1..MaxBound /\ max_height \in 1..MaxBound
        /\ fps = 12
        /\ im = <<<<100>>>>
     \/ /\ \E s \in SizeSamples :
             /\ w = s[1] /\ h = s[2] /\ max_width = s[3] /\ max_height = s[4]
        /\ fps \in FpsSet
        /\ im \in Animations
  /\ pc = "open"
  /\ new_size = <<0, 0>>
  /\ orig_durations = <<>>
  /\ avg_duration = <<0, 1>>
  /\ target_frame_duration = 0
  /\ i = 0 /\ dur = 0 /\ acc = 0
  /\ frames = <<>> /\ durations = <<>> /\ paletted = <<>>
  /\ out_file \in {"absent", "old"}
  /\ error = "none"

(* ------------------------------ actions ------------------------------- *)

Raise(e) == pc' = "raised" /\ error' = e

\* im = Image.open(input_path)
Open ==
  /\ pc = "open"
  /\ pc' = "plan"
  /\ UNCHANGED <<inputs, new_size, timing, loopvars, paletted, out_file, error>>

\* Image.open raises on a file it cannot identify.
OpenFails ==
  /\ pc = "open"
  /\ Raise("decode")
  /\ UNCHANGED <<inputs, new_size, timing, loopvars, paletted, out_file>>

\* w, h = im.size; scale = ...; new_size = ...
PlanSize ==
  /\ pc = "plan"
  /\ new_size' \in NewSizes(w, h, max_width, max_height)
  /\ pc' = "timing"
  /\ UNCHANGED <<inputs, timing, loopvars, paletted, out_file, error>>

\* orig_durations, avg_duration, target_frame_duration
PlanTiming ==
  /\ pc = "timing"
  /\ fps # 0
  /\ orig_durations' = OrigDurations(im)
  /\ avg_duration' = AvgDuration(OrigDurations(im))
  /\ target_frame_duration' = TargetFrameDuration(fps)
  /\ pc' = "loop"
  /\ UNCHANGED <<inputs, new_size, loopvars, paletted, out_file, error>>

\* 1000 / fps raises ZeroDivisionError when fps is 0; nothing catches it.
PlanTimingDividesByZero ==
  /\ pc = "timing"
  /\ fps = 0
  /\ orig_durations' = OrigDurations(im)
  /\ avg_duration' = AvgDuration(OrigDurations(im))
  /\ Raise("ZeroDivisionError")
  /\ UNCHANGED <<inputs, new_size, target_frame_duration, loopvars, paletted, out_file>>

\* One iteration of the loop of lines 41-56, on frame i (0-based).
\* acc = locals().get("acc", 0) + dur reads the acc that "if i == 0" has
\* just set to 0, or the one the iteration before left.
SelectFrame ==
  /\ pc = "loop"
  /\ i < Len(im)
  /\ LET d == FrameDuration(im[i + 1], avg_duration)
         a == (IF i = 0 THEN 0 ELSE acc) + d
         keep == ShouldKeep(a, target_frame_duration, i)
     IN  /\ dur' = d
         /\ acc' = AccAfter(a, keep)
         /\ frames' = IF keep THEN Append(frames, i) ELSE frames
         /\ durations' = IF keep
                           THEN Append(durations, OutDuration(d, target_frame_duration))
                           ELSE durations
  /\ i' = i + 1
  /\ UNCHANGED <<inputs, new_size, timing, pc, paletted, out_file, error>>

\* frame.convert("RGBA") or frame.resize(...) raises on the frame the loop
\* is at; resize is only called when the size changes.
SelectFrameFails ==
  /\ pc = "loop"
  /\ i < Len(im)
  /\ \/ Raise("decode")
     \/ /\ <<w, h>> # new_size
        /\ ShouldKeep((IF i = 0 THEN 0 ELSE acc) + FrameDuration(im[i + 1], avg_duration),
                      target_frame_duration, i)
        /\ Raise("resize")
  /\ UNCHANGED <<inputs, new_size, timing, loopvars, paletted, out_file>>

\* The iterator is exhausted.
EndLoop ==
  /\ pc = "loop"
  /\ i = Len(im)
  /\ pc' = IF frames = <<>> THEN "fallback" ELSE "quantize"
  /\ UNCHANGED <<inputs, new_size, timing, loopvars, paletted, out_file, error>>

\* if not frames: frames = [im0]; durations = [target_frame_duration]
Fallback ==
  /\ pc = "fallback"
  /\ frames' = <<SourceImage>>
  /\ durations' = <<target_frame_duration>>
  /\ pc' = "quantize"
  /\ UNCHANGED <<inputs, new_size, timing, i, dur, acc, paletted, out_file, error>>

\* paletted.append(f.convert("P", ...)) for the next f in frames
Quantize ==
  /\ pc = "quantize"
  /\ Len(paletted) < Len(frames)
  /\ paletted' = Append(paletted, frames[Len(paletted) + 1])
  /\ UNCHANGED <<inputs, new_size, timing, loopvars, pc, out_file, error>>

\* f.convert("P", ...) raises (a palette size the library refuses, say).
QuantizeFails ==
  /\ pc = "quantize"
  /\ Len(paletted) < Len(frames)
  /\ Raise("quantize")
  /\ UNCHANGED <<inputs, new_size, timing, loopvars, paletted, out_file>>

\* paletted[0].save(out_path, ...): save is given the path, not a file
\* object, so it opens out_path for writing before the encoder writes the
\* first byte: that creates the file, or empties the one of an earlier run.
SaveOpens ==
  /\ pc = "quantize"
  /\ Len(paletted) = Len(frames)
  /\ out_file' = IF out_file = "absent" THEN "partial_new" ELSE "partial_over_old"
  /\ pc' = "save"
  /\ UNCHANGED <<inputs, new_size, timing, loopvars, paletted, error>>

\* The encoder writes every frame and save returns.
SaveCompletes ==
  /\ pc = "save"
  /\ out_file' = "complete"
  /\ pc' = "done"
  /\ UNCHANGED <<inputs, new_size, timing, loopvars, paletted, error>>

\* The encoder raises part way (the disk is full, say).  optimize_gif has
\* no handler and stages nothing, so what is left at out_path is what save
\* leaves: the partly written file, or nothing where save removes a file it
\* created itself.  A file it did not create stays, emptied.
SaveFails ==
  /\ pc = "save"
  /\ out_file' \in IF out_file = "partial_new"
                     THEN {"partial_new", "absent"}
                     ELSE {"partial_over_old"}
  /\ Raise("encode")
  /\ UNCHANGED <<inputs, new_size, timing, loopvars, paletted>>

Next ==
  \/ Open
  \/ OpenFails
  \/ PlanSize
  \/ PlanTiming
  \/ PlanTimingDividesByZero
  \/ SelectFrame
  \/ SelectFrameFails
  \/ EndLoop
  \/ Fallback
  \/ Quantize
  \/ QuantizeFails
  \/ SaveOpens
  \/ SaveCompletes
  \/ SaveFails

Spec == Init /\ [][Next]_vars

(* ------------------------ vocabulary of the claims -------------------- *)

\* target_frame_duration has been computed (line 36 has run).
TimingPlanned == pc \in {"loop", "fallback", "quantize", "save", "done"}

\* new_size has been computed (line 29 has run).
SizePlanned == pc \notin {"open", "plan"} /\ new_size # <<0, 0>>

\* The selection loop has run to its end.
SelectionDone == pc \in {"quantize", "save", "done"}

\* round(n / d) for n >= 0, d > 0: to the nearest integer, a tie to the even
\* one, as Python rounds.
RoundDiv(n, d) ==
  LET q == n \div d
      r == n % d
  IN  IF 2 * r < d THEN q
      ELSE IF 2 * r > d THEN q + 1
      ELSE IF q % 2 = 0 THEN q ELSE q + 1

\* Frame k (0-based) is among the kept frames.
Kept(k) == \E j \in 1..Len(frames) : frames[j] = k

\* The last kept frame before frame k (0-based), or -1 if there is none.
LastKeptBefore(k) ==
  LET S == { frames[j] : j \in { m \in 1..Len(frames) : frames[m] < k } }
  IN  IF S = {} THEN -1 ELSE CHOOSE x \in S : \A y \in S : y <= x

\* Sum of D over the frames a..b (0-based, D indexed from 1).
RECURSIVE SumBetween(_, _, _)
SumBetween(D, a, b) == IF a > b THEN 0 ELSE D[b + 1] + SumBetween(D, a, b - 1)

\* The integer part of the mean of orig_durations.
MeanOfOrigDurations == SumSeq(orig_durations) \div Len(orig_durations)

\* The duration the loop reads for each frame: the frame's own, or the
\* integer part of the mean for a frame without one.
ReadDurations ==
  [k \in 1..Len(im) |-> IF im[k] = <<>> THEN MeanOfOrigDurations ELSE im[k][1]]

\* The accumulation rule over the durations D, for the frames the loop has
\* taken: a frame after the first is kept exactly when D summed from the
\* frame after the last kept one reaches the target, acc holds the sum since
\* the last kept frame, and if every D reaches the target every frame is kept.
AccumulationRule(D) ==
  /\ \A k \in 1..(i - 1) :
       Kept(k) <=> SumBetween(D, LastKeptBefore(k) + 1, k) >= target_frame_duration
  /\ (pc = "loop" /\ i >= 1) => acc = SumBetween(D, LastKeptBefore(i) + 1, i - 1)
  /\ (pc = "loop" /\ i >= 1 /\ Kept(i - 1)) => acc = 0
  /\ (SelectionDone /\ Len(im) > 0 /\ \A k \in 1..Len(im) : D[k] >= target_frame_duration)
       => frames = [k \in 1..Len(im) |-> k - 1]

TenFramesOf20 == [k \in 1..10 |-> <<20>>]

(* ------------------------------- claims ------------------------------- *)

\* C1 as stated: for fps >= 1 the target frame duration is
\* max(10, round(1000 / fps)).  Refuted at fps = 6: the code truncates
\* 166.67 to 166 where rounding gives 167.
C1_TargetIsRounded ==
  (TimingPlanned /\ fps >= 1) =>
    target_frame_duration = Max2(10, RoundDiv(1000, fps))

\* C1 as amended: for fps >= 1 the target frame duration is
\* max(10, floor(1000 / fps)): at least 10, the largest t with t * fps <= 1000
\* when that is above 10; fps = 12 gives 83 and fps = 1000 gives 10.
C1_TargetIsTruncated ==
  (TimingPlanned /\ fps >= 1) =>
    LET t == target_frame_duration
    IN  /\ t >= 10
        /\ t > 10 => (t * fps <= 1000 /\ 1000 < (t + 1) * fps)
        /\ t = 10 => 1000 < 11 * fps
        /\ fps = 12 => t = 83
        /\ fps = 1000 => t = 10

C1_Witness == TimingPlanned /\ fps = 6 /\ target_frame_duration = 166

\* C2: for a non-empty animation and fps >= 1 the kept indices are strictly
\* increasing and start at 0: frame 0 is kept as soon as the loop has taken
\* it, no frame is kept twice or out of order, every kept index is one the
\* loop has taken, and there are at most as many kept frames as frames.
C2_KeptIndicesIncreaseFromZero ==
  (Len(im) > 0 /\ fps >= 1) =>
    /\ \A j \in 1..Len(frames) : frames[j] \in 0..(i - 1)
    /\ \A j \in 1..(Len(frames) - 1) : frames[j] < frames[j + 1]
    /\ i >= 1 => (frames # <<>> /\ frames[1] = 0)
    /\ Len(frames) <= i /\ i <= Len(im)

C2_Witness ==
  /\ pc = "done" /\ fps >= 1
  /\ Len(frames) >= 2 /\ Len(frames) < Len(im)

\* C3 as stated: ten frames of 20 ms at fps = 12 keep frame 0, skip frames
\* 1 to 4, keep frame 5, and keep 3 frames in all.  Refuted: frames 6 to 9
\* add up to 80 < 83, so only 2 frames are kept.
C3_ThreeFramesKept ==
  (SelectionDone /\ im = TenFramesOf20 /\ fps = 12) =>
    /\ Kept(0) /\ \A k \in 1..4 : ~Kept(k)
    /\ Kept(5)
    /\ Len(frames) = 3

\* C3 as amended: ten frames of 20 ms at fps = 12 (threshold 83) keep
\* exactly frames 0 and 5: 2 frames in all.
C3_TwoFramesKept ==
  (SelectionDone /\ im = TenFramesOf20 /\ fps = 12) =>
    /\ target_frame_duration = 83
    /\ frames = <<0, 5>>

C3_Witness ==
  /\ pc = "done" /\ im = TenFramesOf20 /\ fps = 12
  /\ Len(frames) = 2

\* C4: for positive bounds each planned dimension is at least 1 and at most
\* the source's: never a zero side, never upscaled.
C4_NeverUpscaledNeverZero ==
  SizePlanned =>
    /\ 1 <= new_size[1] /\ new_size[1] <= w
    /\ 1 <= new_size[2] /\ new_size[2] <= h

C4_Witness ==
  /\ SizePlanned
  /\ max_width > w /\ max_height > h /\ w > 1
  /\ new_size = <<w, h>>

\* C5: for bounds >= 1 the planned size is within them: the planned width
\* is at most max_width and the planned height at most max_height.
C5_WithinRequestedBounds ==
  SizePlanned =>
    /\ new_size[1] <= max_width
    /\ new_size[2] <= max_height

C5_Witness ==
  /\ SizePlanned
  /\ w > max_width /\ h > max_height
  /\ new_size[1] = max_width /\ new_size[2] < max_height

\* C6: durations always has one entry per kept frame, each equal to
\* target_frame_duration, whatever the frame's own duration was; when the
\* encoder is invoked the quantized frames are the kept frames, in order,
\* one per entry of durations.
C6_OneTargetDurationPerKeptFrame ==
  /\ Len(durations) = Len(frames)
  /\ \A j \in 1..Len(durations) : durations[j] = target_frame_duration
  /\ pc \in {"save", "done"} => (paletted = frames /\ Len(paletted) = Len(durations))

C6_Witness ==
  /\ pc = "save"
  /\ Len(frames) >= 2
  /\ \E j \in 1..Len(frames) : im[frames[j] + 1] # <<target_frame_duration>>

\* C7 as stated: for every animation and every integer fps the selection
\* step does not raise and ends with at least one frame; from an empty
\* animation it ends with exactly one, carrying target_frame_duration.
\* Refuted at fps = 0: 1000 / fps raises ZeroDivisionError.
C7_SelectionNeverFails ==
  /\ error # "ZeroDivisionError"
  /\ SelectionDone => Len(frames) >= 1
  /\ (SelectionDone /\ im = <<>>) =>
       (Len(frames) = 1 /\ durations = <<target_frame_duration>>)

\* C8 as stated: the encoder is invoked only once every kept frame is
\* quantized; a run that fails leaves no file of its own at out_path,
\* complete or partial; a run that succeeds leaves the complete one.
\* Refuted: save writes straight to out_path, and when the encoder fails
\* the partly written file can stay.
C8_AllOrNothing ==
  /\ pc \in {"save", "done"} => paletted = frames
  /\ pc = "raised" => out_file \in {"absent", "old"}
  /\ pc = "done" => out_file = "complete"

\* C9 as stated, the original duration of a frame being the entry of
\* orig_durations (100 ms for a frame without one).  Refuted by a frame
\* without a duration among frames whose mean is not 100: the loop adds
\* the mean, not 100.
C9_RuleOverOrigDurations ==
  (orig_durations # <<>>) => AccumulationRule(orig_durations)

\* C9 as amended: the accumulation rule holds of the durations the loop
\* reads: a frame's own duration, or for a frame without one the integer
\* part of the mean of orig_durations.
C9_RuleOverReadDurations ==
  (orig_durations # <<>>) => AccumulationRule(ReadDurations)

C9_Witness ==
  /\ pc = "done"
  /\ \E k \in 1..Len(im) : im[k] = <<>> /\ ReadDurations[k] # 100
  /\ \E k \in 1..(Len(im) - 1) : ~Kept(k)
  /\ \E k \in 1..(Len(im) - 1) : Kept(k)

\* C10 as stated: the duration the loop adds for a frame without timing
\* metadata is 100 ms whatever the other frames' durations are.  Refuted by
\* <<20 ms, no duration>>: the loop adds int((20 + 100) / 2) = 60.
C10_MissingDurationIs100 ==
  (i >= 1 /\ im[i] = <<>>) => dur = 100

\* C10 as amended: the duration the loop adds for a frame without timing
\* metadata is the integer part of the mean of orig_durations, in which that
\* frame counts as 100 ms; it is 100 ms when no frame has a duration.
C10_MissingDurationIsMean ==
  (i >= 1 /\ im[i] = <<>>) =>
    /\ orig_durations[i] = 100
    /\ dur = MeanOfOrigDurations
    /\ (\A k \in 1..Len(im) : im[k] = <<>>) => dur = 100

C10_Witness ==
  /\ pc = "loop" /\ i = 2
  /\ im = << <<20>>, <<>> >>
  /\ dur = 60

====
